---- MODULE Spec2Model ----
(***************************************************************************)
(* Meeting Assistant AI: the session lifecycle of App (handleStartMeeting, *)
(* handleStopMeeting, cleanupTracks) and of GeminiLiveService (connect,    *)
(* disconnect, startAudioStream, stopAudioStream and the session           *)
(* callbacks), as a state machine over media tracks and start attempts.    *)
(*                                                                         *)
(* Every click on "Start Meeting" is one attempt, numbered in click order. *)
(* handleStartMeeting suspends at its awaits (getUserMedia,                *)
(* getDisplayMedia, audioContext.resume), so attempts interleave with each *)
(* other, with the other handlers and with the service's callbacks; the    *)
(* code between two suspension points runs as one step of the event loop.  *)
(***************************************************************************)
EXTENDS Integers, FiniteSets, Sequences, TLC

\* Number of clicks on "Start Meeting" explored by Spec, and by SpecDeep.
MaxAttempts == 2
DeepAttempts == 3

\* Number of items the transcript log holds in SpecLog.
MaxLog == 2

\* Number of audio frames the script processors produce in SpecFrames.
MaxFrames == 3

Attempts == 1..(IF MaxAttempts > DeepAttempts THEN MaxAttempts ELSE DeepAttempts)

\* ConnectionState (enum)
DISCONNECTED == "DISCONNECTED"
CONNECTING == "CONNECTING"
CONNECTED == "CONNECTED"
ERROR == "ERROR"
ConnectionState == {DISCONNECTED, CONNECTING, CONNECTED, ERROR}

\* The tracks an attempt can acquire: getUserMedia's audio track,
\* getDisplayMedia's audio and video tracks, and the track of dest.stream.
Kinds == {"mic", "tabAudio", "tabVideo", "mixed"}
Tracks == Attempts \X Kinds

\* null (errorMsg: string | null)
NULL == "<null>"

\* Messages of the handler and of the errors it throws itself.
DefaultMsg == "Failed to access audio. Ensure you select a tab with audio sharing enabled."
PermissionMsg == "Permission denied. Please allow microphone access and select a tab to share."
PolicyMsg == "Screen capture permission policy violation. Please refresh or try a different browser context."
NoMicMsg == "No microphone audio track found. Please check your microphone settings."
NoTabAudioMsg == "Tab audio not detected. Please ensure you check the 'Share tab audio' box in the sharing dialog."

\* Messages a rejected capture or resume promise can carry.
DeviceMsg == "Requested device not found"
DisallowedMsg == "Access to the feature display-capture is disallowed by permission policy"
PlatformMessages == {"", DeviceMsg, DisallowedMsg}
PlatformNames == {"NotAllowedError", "NotFoundError"}
PlatformErrors == [name : PlatformNames, message : PlatformMessages]

\* err.message.includes('display-capture') over the messages of the model
IncludesDisplayCapture(m) == m \in {DisallowedMsg}

VARIABLES
    connectionState,  \* App state connectionState
    stream,           \* App state stream: 0 (null) or the attempt whose dest.stream it is
    errorMsg,         \* App state errorMsg
    activeTracks,     \* activeTracksRef.current
    readyState,       \* per track: "none" (not acquired), "live", "stopped" (stop()), "ended" (remotely)
    pc,               \* per attempt: where handleStartMeeting stands
    closureStream,    \* per attempt: `stream` as seen by the render whose handlers the attempt uses
    onended,          \* per attempt: videoTrack.onended is installed
    session,          \* per attempt: the session asked for by its connect(): "none", "failed" (ai.live.connect threw), "pending", "open", "errored", "closed"
    sessionPromise,   \* GeminiLiveService.sessionPromise: 0 (null) or the attempt whose session it is
    scriptProcessor,  \* GeminiLiveService.scriptProcessor (with mediaStreamSource, inputAudioContext): 0 or its stream's attempt
    framers,          \* audio graphs whose onaudioprocess is still running
    nextAttempt,      \* number of the next click on "Start Meeting"
    afterStop,        \* handleStopMeeting completed and no "Start Meeting" click came since
    interrupted,      \* attempts that held tracks but had no open session yet when "End Meeting" was clicked
    last,             \* the handler that ran last: [op, a, from]
    transcripts,      \* App state transcripts
    currentSuggestion,\* App state currentSuggestion
    isGenerating,     \* App state isGenerating
    received,         \* the transcription texts the service delivered, in arrival order: <<side, text>>
    message,          \* SpecMessage: the LiveServerMessage handed to handleMessage
    resolved,         \* attempts whose session promise has resolved
    queued,           \* per attempt: the callbacks waiting on its session promise
    sent,             \* what the last step passed to session.sendRealtimeInput, if anything
    afterError,       \* an open session reported an error and no "Start Meeting" click came since
    fresh,            \* attempts whose connect() was issued since the last disconnect()
    caught,           \* SpecCapture: the platform error the catch block handled last
    produced,         \* SpecFrames: number of frames onaudioprocess has produced
    frameQueue,       \* SpecFrames: per attempt, the frames whose callbacks wait on its session promise, in .then order
    delivered         \* SpecFrames: per attempt, the frames passed to its session's sendRealtimeInput, in call order

lifeVars == <<connectionState, stream, errorMsg, activeTracks, readyState, pc,
              closureStream, onended, session, sessionPromise, scriptProcessor,
              framers, nextAttempt, afterStop, interrupted, last>>

logVars == <<transcripts, currentSuggestion, isGenerating, received, message>>
sendVars == <<resolved, queued, sent, afterError, fresh>>

frameVars == <<produced, frameQueue, delivered>>

vars == <<lifeVars, logVars, sendVars, caught, frameVars>>

appVars == <<stream, errorMsg, activeTracks, readyState>>
serviceVars == <<sessionPromise, scriptProcessor, framers>>

T(a, k) == <<a, k>>

Live == {t \in Tracks : readyState[t] = "live"}
LiveOf(a) == {t \in Live : t[1] = a}

----------------------------------------------------------------------------
(* Pure helpers *)

\* track.stop() on every track of S: a live track becomes stopped
StopTracks(rs, S) ==
    [t \in Tracks |-> IF t \in S /\ rs[t] = "live" THEN "stopped" ELSE rs[t]]

\* cleanupTracks(): stop everything in activeTracksRef.current
cleanupTracks(rs, act) == StopTracks(rs, act)

\* the catch block's message
ErrorMessage(err) ==
    IF err.name = "NotAllowedError" THEN PermissionMsg
    ELSE IF err.message # "" /\ IncludesDisplayCapture(err.message) THEN PolicyMsg
    ELSE IF err.message # "" THEN err.message
    ELSE DefaultMsg

\* stopAudioStream(): the graph the fields point at, if any, is disconnected
stopAudioStream(fr, sp) == IF sp # 0 THEN fr \ {sp} ELSE fr

\* What `last` records: the handler, its attempt (0: none), and for
\* handleStopMeeting the connection state it was invoked in.
Note(op, a) ==
    [op |-> op, a |-> a,
     from |-> IF op \in {"stop", "videoEnded", "generate"} THEN connectionState ELSE "-"]

\* currentSuggestion: TranscriptionItem | null
NoItem == [id |-> 0, text |-> NULL, isUser |-> FALSE, isComplete |-> FALSE]

\* A field that is not there (undefined)
Absent == "<absent>"

\* Non-empty transcription texts
Texts == {"hello", "hi there"}

\* message.serverContent.inputTranscription / outputTranscription: not there,
\* or an object whose text is undefined, "" or a non-empty string
NoTranscription == "<no transcription>"
Transcriptions == {NoTranscription, Absent, ""} \cup Texts

\* LiveServerMessage, as far as handleMessage reads it. serverContent: whether
\* the message has one.
Messages ==
    [serverContent : BOOLEAN,
     inputTranscription : Transcriptions,
     outputTranscription : Transcriptions,
     turnComplete : {"undefined", "false", "true"}]

NoMessage ==
    [serverContent |-> FALSE, inputTranscription |-> NoTranscription,
     outputTranscription |-> NoTranscription, turnComplete |-> "undefined"]

\* No platform error was caught
NoError == [name |-> "", message |-> ""]

\* Nothing was passed to sendRealtimeInput
NoSend == [kind |-> "none", from |-> 0, to |-> 0, status |-> "-", deferred |-> FALSE]

----------------------------------------------------------------------------
\* The state after the App mounted and constructed the service
Constructed ==
    /\ connectionState = DISCONNECTED
    /\ stream = 0
    /\ errorMsg = NULL
    /\ activeTracks = {}
    /\ readyState = [t \in Tracks |-> "none"]
    /\ pc = [a \in Attempts |-> "idle"]
    /\ closureStream = [a \in Attempts |-> 0]
    /\ onended = [a \in Attempts |-> FALSE]
    /\ session = [a \in Attempts |-> "none"]
    /\ sessionPromise = 0
    /\ scriptProcessor = 0
    /\ framers = {}
    /\ nextAttempt = 1
    /\ afterStop = FALSE
    /\ interrupted = {}
    /\ last = [op |-> "init", a |-> 0, from |-> DISCONNECTED]
    /\ transcripts = <<>>
    /\ currentSuggestion = NoItem
    /\ isGenerating = FALSE
    /\ received = <<>>
    /\ resolved = {}
    /\ queued = [a \in Attempts |-> {}]
    /\ sent = NoSend
    /\ afterError = FALSE
    /\ fresh = {}
    /\ caught = NoError
    /\ produced = 0
    /\ frameQueue = [a \in Attempts |-> << >>]
    /\ delivered = [a \in Attempts |-> << >>]

Init == Constructed /\ message = NoMessage

----------------------------------------------------------------------------
(* handleStartMeeting *)

\* The button is rendered in DISCONNECTED and ERROR. The click clears the
\* error, runs cleanupTracks and suspends in getUserMedia.
StartButton == connectionState \in {DISCONNECTED, ERROR}

handleStartMeeting(a) ==
    /\ a = nextAttempt
    /\ StartButton
    /\ nextAttempt' = a + 1
    /\ errorMsg' = NULL
    /\ readyState' = cleanupTracks(readyState, activeTracks)
    /\ activeTracks' = {}
    /\ pc' = [pc EXCEPT ![a] = "getUserMedia"]
    /\ closureStream' = [closureStream EXCEPT ![a] = stream]
    /\ afterStop' = FALSE
    /\ last' = Note("start", a)
    /\ UNCHANGED <<connectionState, stream, onended, session, serviceVars, interrupted>>

\* catch (err): cleanupTracks, setErrorMsg, setConnectionState(ERROR).
\* rs and act are the tracks as the try block left them.
Catch(a, err, rs, act, op) ==
    /\ readyState' = cleanupTracks(rs, act)
    /\ activeTracks' = {}
    /\ errorMsg' = ErrorMessage(err)
    /\ connectionState' = ERROR
    /\ pc' = [pc EXCEPT ![a] = "done"]
    /\ last' = Note(op, a)
    /\ UNCHANGED <<stream, closureStream, onended, session, serviceVars,
                   nextAttempt, afterStop, interrupted>>

\* getUserMedia rejects
getUserMediaRejects(a, err) ==
    /\ pc[a] = "getUserMedia"
    /\ Catch(a, err, readyState, activeTracks, "micRejected")

MicRejected(a) == \E err \in PlatformErrors : getUserMediaRejects(a, err)

\* getUserMedia resolves with a stream without audio track
MicNoTrack(a) ==
    /\ pc[a] = "getUserMedia"
    /\ Catch(a, [name |-> "Error", message |-> NoMicMsg], readyState, activeTracks, "micNoTrack")

\* getUserMedia resolves: the tracks are pushed, getDisplayMedia is awaited
MicGranted(a) ==
    /\ pc[a] = "getUserMedia"
    /\ readyState' = [readyState EXCEPT ![T(a, "mic")] = "live"]
    /\ activeTracks' = activeTracks \cup {T(a, "mic")}
    /\ pc' = [pc EXCEPT ![a] = "getDisplayMedia"]
    /\ last' = Note("micGranted", a)
    /\ UNCHANGED <<connectionState, stream, errorMsg, closureStream, onended,
                   session, serviceVars, nextAttempt, afterStop, interrupted>>

\* getDisplayMedia rejects
getDisplayMediaRejects(a, err) ==
    /\ pc[a] = "getDisplayMedia"
    /\ Catch(a, err, readyState, activeTracks, "tabRejected")

TabRejected(a) == \E err \in PlatformErrors : getDisplayMediaRejects(a, err)

\* The same branch with the display tracks left running (only cleanupTracks)
NoTabAudioBranchKeepsVideo(a, rs, act) ==
    cleanupTracks([rs EXCEPT ![T(a, "tabVideo")] = "live"], act)

\* The branch for a display stream without audio track: its tracks (the
\* video track) are stopped, then cleanupTracks.
NoTabAudioBranch(a, rs, act) ==
    cleanupTracks(StopTracks([rs EXCEPT ![T(a, "tabVideo")] = "live"], {T(a, "tabVideo")}), act)

\* getDisplayMedia resolves without audio track
TabNoAudio(a) ==
    /\ pc[a] = "getDisplayMedia"
    /\ Catch(a, [name |-> "Error", message |-> NoTabAudioMsg],
             NoTabAudioBranch(a, readyState, activeTracks), {}, "tabNoAudio")

\* The display tracks are live and pushed
TabPushed(rs, a) ==
    [rs EXCEPT ![T(a, "tabAudio")] = "live", ![T(a, "tabVideo")] = "live"]

\* GeminiLiveService.connect(mixedStream) and the rest of the try block:
\* CONNECTING at once; ai.live.connect either returns the session promise or
\* throws, which connect() catches itself (ERROR) before returning normally;
\* then videoTrack.onended is installed.
connect(a, throws) ==
    /\ connectionState' = IF throws THEN ERROR ELSE CONNECTING
    /\ sessionPromise' = IF throws THEN sessionPromise ELSE a
    /\ session' = [session EXCEPT ![a] = IF throws THEN "failed" ELSE "pending"]
    /\ UNCHANGED <<scriptProcessor, framers>>

\* 3. Mix Streams ... setStream(mixedStream); await connect(mixedStream);
\* videoTrack.onended = ...
MixAndConnect(a, rs, act, op) ==
    /\ readyState' = [rs EXCEPT ![T(a, "mixed")] = "live"]
    /\ activeTracks' = act
    /\ stream' = a
    /\ \E throws \in BOOLEAN : connect(a, throws)
    /\ onended' = [onended EXCEPT ![a] = TRUE]
    /\ pc' = [pc EXCEPT ![a] = "done"]
    /\ last' = Note(op, a)
    /\ UNCHANGED <<errorMsg, closureStream, nextAttempt, afterStop, interrupted>>

\* getDisplayMedia resolves with audio, the AudioContext is running
TabGranted(a) ==
    /\ pc[a] = "getDisplayMedia"
    /\ MixAndConnect(a, TabPushed(readyState, a),
                     activeTracks \cup {T(a, "tabAudio"), T(a, "tabVideo")}, "connect")

\* getDisplayMedia resolves with audio, the AudioContext is suspended:
\* audioContext.resume() is awaited
TabGrantedSuspended(a) ==
    /\ pc[a] = "getDisplayMedia"
    /\ readyState' = TabPushed(readyState, a)
    /\ activeTracks' = activeTracks \cup {T(a, "tabAudio"), T(a, "tabVideo")}
    /\ pc' = [pc EXCEPT ![a] = "resume"]
    /\ last' = Note("tabGranted", a)
    /\ UNCHANGED <<connectionState, stream, errorMsg, closureStream, onended,
                   session, serviceVars, nextAttempt, afterStop, interrupted>>

\* audioContext.resume() resolves
Resumed(a) ==
    /\ pc[a] = "resume"
    /\ MixAndConnect(a, readyState, activeTracks, "connect")

\* audioContext.resume() rejects
ResumeRejected(a) ==
    /\ pc[a] = "resume"
    /\ \E err \in PlatformErrors : Catch(a, err, readyState, activeTracks, "resumeRejected")

----------------------------------------------------------------------------
(* The session callbacks given to ai.live.connect *)

\* startAudioStream(stream): a new graph replaces the fields' values
startAudioStream(a) ==
    /\ scriptProcessor' = a
    /\ framers' = framers \cup {a}

onopen(a) ==
    /\ session[a] = "pending"
    /\ session' = [session EXCEPT ![a] = "open"]
    /\ connectionState' = CONNECTED
    /\ startAudioStream(a)
    /\ last' = Note("onopen", a)
    /\ UNCHANGED <<appVars, pc, closureStream, onended, sessionPromise,
                   nextAttempt, afterStop, interrupted>>

onclose(a) ==
    /\ session[a] \in {"pending", "open", "errored"}
    /\ session' = [session EXCEPT ![a] = "closed"]
    /\ connectionState' = DISCONNECTED
    /\ framers' = stopAudioStream(framers, scriptProcessor)
    /\ scriptProcessor' = 0
    /\ last' = Note("onclose", a)
    /\ UNCHANGED <<appVars, pc, closureStream, onended, sessionPromise,
                   nextAttempt, afterStop, interrupted>>

\* An error is reported once per session; after it the service can only
\* close the session.
onerror(a) ==
    /\ session[a] \in {"pending", "open"}
    /\ session' = [session EXCEPT ![a] = "errored"]
    /\ connectionState' = ERROR
    /\ framers' = stopAudioStream(framers, scriptProcessor)
    /\ scriptProcessor' = 0
    /\ last' = Note("onerror", a)
    /\ UNCHANGED <<appVars, pc, closureStream, onended, sessionPromise,
                   nextAttempt, afterStop, interrupted>>

----------------------------------------------------------------------------
(* handleStopMeeting *)

\* GeminiLiveService.disconnect()
disconnect ==
    /\ framers' = IF sessionPromise # 0 THEN stopAudioStream(framers, scriptProcessor) ELSE framers
    /\ scriptProcessor' = IF sessionPromise # 0 THEN 0 ELSE scriptProcessor
    /\ sessionPromise' = 0

\* The attempts whose start is in progress: tracks acquired, session not yet
\* acknowledged open
InProgress ==
    {b \in Attempts : \/ pc[b] \in {"getDisplayMedia", "resume"}
                      \/ pc[b] = "done" /\ session[b] = "pending"}

\* The tracks handleStopMeeting calls stop() on, s being its closure's `stream`
StopTargets(s) == activeTracks \cup (IF s # 0 THEN {T(s, "mixed")} ELSE {})

\* handleStopMeeting of a render whose `stream` is s. rs: the tracks before.
\* It leaves transcripts, currentSuggestion and isGenerating alone.
handleStopMeeting(s, rs, op, a) ==
    /\ disconnect
    /\ readyState' = StopTracks(rs, StopTargets(s))
    /\ activeTracks' = {}
    /\ stream' = 0
    /\ connectionState' = DISCONNECTED
    /\ afterStop' = TRUE
    /\ interrupted' = IF op = "stop" THEN interrupted \cup InProgress ELSE interrupted
    /\ last' = Note(op, a)
    /\ UNCHANGED <<errorMsg, pc, closureStream, onended, session, nextAttempt>>

\* The "End Meeting" button, rendered in CONNECTING and CONNECTED, calls the
\* handler of the current render.
StopButton == connectionState \in {CONNECTING, CONNECTED}

Stop ==
    /\ StopButton
    /\ handleStopMeeting(stream, readyState, "stop", 0)

\* The shared tab's video track ends remotely: its onended calls the
\* handleStopMeeting of the render in which the attempt was started.
VideoEnded(a) ==
    /\ onended[a]
    /\ readyState[T(a, "tabVideo")] = "live"
    /\ handleStopMeeting(closureStream[a],
                         [readyState EXCEPT ![T(a, "tabVideo")] = "ended"],
                         "videoEnded", a)

----------------------------------------------------------------------------
----------------------------------------------------------------------------
\* Inbound: handleMessage and the App's onTranscriptionUpdate callback

\* `if (text)`: undefined and "" are falsy
Truthy(text) == text \notin {Absent, ""}

\* `!!message.serverContent.turnComplete`
ToBoolean(v) == v = "true"

\* `message.serverContent?.inputTranscription` is an object
HasTranscription(m, tr) == m.serverContent /\ tr # NoTranscription

\* handleMessage with the output transcription handled first
handleMessageOutputFirst(m, n) ==
    LET outputItem ==
            IF HasTranscription(m, m.outputTranscription) /\ Truthy(m.outputTranscription)
            THEN << [id |-> n + 1, text |-> m.outputTranscription,
                     isUser |-> FALSE, isComplete |-> ToBoolean(m.turnComplete)] >>
            ELSE << >>
        inputItem ==
            IF HasTranscription(m, m.inputTranscription) /\ Truthy(m.inputTranscription)
            THEN << [id |-> n + Len(outputItem) + 1, text |-> m.inputTranscription,
                     isUser |-> TRUE, isComplete |-> ToBoolean(m.turnComplete)] >>
            ELSE << >>
    IN  outputItem \o inputItem

\* The items handleMessage hands to onTranscriptionUpdate, in call order.
\* n: the number of ids given out before (ids are distinct).
handleMessage(m, n) ==
    LET inputItem ==
            IF HasTranscription(m, m.inputTranscription) /\ Truthy(m.inputTranscription)
            THEN << [id |-> n + 1, text |-> m.inputTranscription,
                     isUser |-> TRUE, isComplete |-> ToBoolean(m.turnComplete)] >>
            ELSE << >>
        outputItem ==
            IF HasTranscription(m, m.outputTranscription) /\ Truthy(m.outputTranscription)
            THEN << [id |-> n + Len(inputItem) + 1, text |-> m.outputTranscription,
                     isUser |-> FALSE, isComplete |-> ToBoolean(m.turnComplete)] >>
            ELSE << >>
    IN  inputItem \o outputItem

\* The item put in front of the log
PrependItem(prev, item) == <<item>> \o prev

\* setTranscripts(prev => [...prev, item])
AppendItem(prev, item) == Append(prev, item)

\* The callback without its isUser test
onTranscriptionUpdateAnySide(ui, item) ==
    [transcripts |-> AppendItem(ui.transcripts, item),
     isGenerating |-> FALSE,
     currentSuggestion |-> item]

\* The App's onTranscriptionUpdate callback on the state ui
onTranscriptionUpdate(ui, item) ==
    [transcripts |-> AppendItem(ui.transcripts, item),
     isGenerating |-> IF ~item.isUser THEN FALSE ELSE ui.isGenerating,
     currentSuggestion |-> IF ~item.isUser THEN item ELSE ui.currentSuggestion]

RECURSIVE Deliver(_, _)
\* The callback called for each item in turn
Deliver(ui, items) ==
    IF items = << >> THEN ui
    ELSE Deliver(onTranscriptionUpdate(ui, Head(items)), Tail(items))

RECURSIVE SidesAndTexts(_)
SidesAndTexts(items) ==
    IF items = << >> THEN << >>
    ELSE << <<Head(items).isUser, Head(items).text>> >> \o SidesAndTexts(Tail(items))

\* this.handleMessage(m) and the callbacks it makes into the App
Inbound(a, m) ==
    LET items == handleMessage(m, Len(received))
        ui == Deliver([transcripts |-> transcripts, isGenerating |-> isGenerating,
                       currentSuggestion |-> currentSuggestion], items)
    IN  /\ Len(received) + Len(items) <= MaxLog
        /\ transcripts' = ui.transcripts
        /\ isGenerating' = ui.isGenerating
        /\ currentSuggestion' = ui.currentSuggestion
        /\ received' = received \o SidesAndTexts(items)
        /\ last' = Note("onmessage", a)
        /\ sent' = NoSend
        /\ UNCHANGED <<connectionState, stream, errorMsg, activeTracks, readyState,
                       pc, closureStream, onended, session, sessionPromise,
                       scriptProcessor, framers, nextAttempt, afterStop,
                       interrupted, message, resolved, queued, afterError, fresh>>

\* onmessage of session a: messages come from an open session
onmessage(a, m) ==
    /\ session[a] = "open"
    /\ Inbound(a, m)

----------------------------------------------------------------------------
\* Outbound: session.sendRealtimeInput

\* One call of session.sendRealtimeInput: kind "audio" (a frame of graph g) or
\* "text" (the suggestion request), to the session of attempt `to`, whose
\* status at the call is sess[to]. deferred: the callback had to wait for the
\* session promise.
Submit(kind, g, to, deferred, sess) ==
    [kind |-> kind, from |-> g, to |-> to, status |-> sess[to], deferred |-> deferred]

\* `if (this.sessionPromise) this.sessionPromise.then(session => session.sendRealtimeInput(..))`
\* A resolved promise runs the callback at once (next microtask), a pending one
\* keeps it until the session is open.
Then(kind, g) ==
    IF sessionPromise = 0
    THEN sent' = NoSend /\ UNCHANGED queued
    ELSE IF sessionPromise \in resolved
         THEN /\ sent' = Submit(kind, g, sessionPromise, FALSE, session)
              /\ UNCHANGED queued
         ELSE /\ queued' = [queued EXCEPT ![sessionPromise] = @ \cup {<<kind, g>>}]
              /\ sent' = NoSend

requestSuggestion == Then("text", 0)

\* handleGenerateResponse without its connection state test
handleGenerateResponseUnguarded ==
    /\ last' = Note("generate", 0)
    /\ isGenerating' = TRUE
    /\ currentSuggestion' = NoItem
    /\ requestSuggestion
    /\ UNCHANGED <<connectionState, stream, errorMsg, activeTracks, readyState,
                   pc, closureStream, onended, session, sessionPromise,
                   scriptProcessor, framers, nextAttempt, afterStop,
                   interrupted, transcripts, received, message, resolved,
                   afterError, fresh>>

\* handleGenerateResponse, as a command in any connection state
handleGenerateResponse ==
    /\ last' = Note("generate", 0)
    /\ IF connectionState # CONNECTED
       THEN sent' = NoSend /\ UNCHANGED <<isGenerating, currentSuggestion, queued>>
       ELSE /\ isGenerating' = TRUE
            /\ currentSuggestion' = NoItem
            /\ requestSuggestion
    /\ UNCHANGED <<connectionState, stream, errorMsg, activeTracks, readyState,
                   pc, closureStream, onended, session, sessionPromise,
                   scriptProcessor, framers, nextAttempt, afterStop,
                   interrupted, transcripts, received, message, resolved,
                   afterError, fresh>>

\* onDismiss that empties the log as well
onDismissClearsLog ==
    /\ currentSuggestion # NoItem
    /\ ~isGenerating
    /\ currentSuggestion' = NoItem
    /\ transcripts' = << >>
    /\ last' = Note("dismiss", 0)
    /\ sent' = NoSend
    /\ UNCHANGED <<connectionState, stream, errorMsg, activeTracks, readyState,
                   pc, closureStream, onended, session, sessionPromise,
                   scriptProcessor, framers, nextAttempt, afterStop,
                   interrupted, isGenerating, received, message,
                   resolved, queued, afterError, fresh>>

\* onDismiss of the suggestion card (rendered when a suggestion is shown)
onDismiss ==
    /\ currentSuggestion # NoItem
    /\ ~isGenerating
    /\ currentSuggestion' = NoItem
    /\ last' = Note("dismiss", 0)
    /\ sent' = NoSend
    /\ UNCHANGED <<connectionState, stream, errorMsg, activeTracks, readyState,
                   pc, closureStream, onended, session, sessionPromise,
                   scriptProcessor, framers, nextAttempt, afterStop,
                   interrupted, transcripts, isGenerating, received, message,
                   resolved, queued, afterError, fresh>>

\* onaudioprocess of the script processor of graph g
onaudioprocess(g) ==
    /\ g \in framers
    /\ Then("audio", g)
    /\ last' = Note("audio", g)
    /\ UNCHANGED <<connectionState, stream, errorMsg, activeTracks, readyState,
                   pc, closureStream, onended, session, sessionPromise,
                   scriptProcessor, framers, nextAttempt, afterStop,
                   interrupted, logVars, resolved, afterError, fresh>>

\* What a lifecycle step does to the outbound side. When a session opens its
\* promise resolves and the callbacks waiting on it run (sent keeps one of
\* them). History: afterError, fresh.
Outbound ==
    /\ IF \E a \in Attempts : session[a] = "pending" /\ session'[a] = "open"
       THEN LET a == CHOOSE b \in Attempts : session[b] = "pending" /\ session'[b] = "open"
            IN  /\ resolved' = resolved \cup {a}
                /\ queued' = [queued EXCEPT ![a] = {}]
                /\ sent' \in IF queued[a] = {} THEN {NoSend}
                              ELSE {Submit(q[1], q[2], a, TRUE, session') : q \in queued[a]}
       ELSE /\ sent' = NoSend
            /\ UNCHANGED <<resolved, queued>>
    /\ afterError' = IF last'.op = "onerror" /\ session[last'.a] = "open" THEN TRUE
                     ELSE IF last'.op = "start" THEN FALSE
                     ELSE afterError
    /\ fresh' = IF last'.op \in {"stop", "videoEnded"} THEN {}
                ELSE IF last'.op = "connect" /\ session'[last'.a] = "pending"
                     THEN fresh \cup {last'.a}
                     ELSE fresh

\* A lifecycle step while messages, requests and audio frames flow
Chat == Outbound /\ UNCHANGED <<logVars, caught, frameVars>>

\* The lifecycle alone: no message arrives, no suggestion is requested and no
\* audio is framed.
Quiet == UNCHANGED <<logVars, sendVars, caught, frameVars>>

\* Everything but the click on "Start Meeting"
Run ==
    \/ \E a \in Attempts : MicRejected(a) /\ Quiet
    \/ \E a \in Attempts : MicNoTrack(a) /\ Quiet
    \/ \E a \in Attempts : MicGranted(a) /\ Quiet
    \/ \E a \in Attempts : TabRejected(a) /\ Quiet
    \/ \E a \in Attempts : TabNoAudio(a) /\ Quiet
    \/ \E a \in Attempts : TabGranted(a) /\ Quiet
    \/ \E a \in Attempts : TabGrantedSuspended(a) /\ Quiet
    \/ \E a \in Attempts : Resumed(a) /\ Quiet
    \/ \E a \in Attempts : ResumeRejected(a) /\ Quiet
    \/ \E a \in Attempts : onopen(a) /\ Quiet
    \/ \E a \in Attempts : onclose(a) /\ Quiet
    \/ \E a \in Attempts : onerror(a) /\ Quiet
    \/ Stop /\ Quiet
    \/ \E a \in Attempts : VideoEnded(a) /\ Quiet

Next ==
    \/ \E a \in 1..MaxAttempts : handleStartMeeting(a) /\ Quiet
    \/ Run

Spec == Init /\ [][Next]_vars

\* The same program with one more click
NextDeep ==
    \/ \E a \in 1..DeepAttempts : handleStartMeeting(a) /\ Quiet
    \/ Run

SpecDeep == Init /\ [][NextDeep]_vars

\* Everything but the click, while messages, requests and frames flow
RunChat ==
    \/ \E a \in Attempts : MicRejected(a) /\ Chat
    \/ \E a \in Attempts : MicNoTrack(a) /\ Chat
    \/ \E a \in Attempts : MicGranted(a) /\ Chat
    \/ \E a \in Attempts : TabRejected(a) /\ Chat
    \/ \E a \in Attempts : TabNoAudio(a) /\ Chat
    \/ \E a \in Attempts : TabGranted(a) /\ Chat
    \/ \E a \in Attempts : TabGrantedSuspended(a) /\ Chat
    \/ \E a \in Attempts : Resumed(a) /\ Chat
    \/ \E a \in Attempts : ResumeRejected(a) /\ Chat
    \/ \E a \in Attempts : onopen(a) /\ Chat
    \/ \E a \in Attempts : onclose(a) /\ Chat
    \/ \E a \in Attempts : onerror(a) /\ Chat
    \/ Stop /\ Chat
    \/ \E a \in Attempts : VideoEnded(a) /\ Chat
    \/ handleGenerateResponse /\ UNCHANGED <<caught, frameVars>>

\* SpecLog: one session at a time is started (one click), messages arrive and
\* suggestions are requested and dismissed.
NextLog ==
    \/ handleStartMeeting(1) /\ Chat
    \/ RunChat
    \/ \E a \in Attempts, m \in Messages : onmessage(a, m) /\ UNCHANGED <<caught, frameVars>>
    \/ onDismiss /\ UNCHANGED <<caught, frameVars>>

SpecLog == Init /\ [][NextLog]_vars

\* SpecSend: overlapping sessions while audio is framed and suggestions are
\* requested.
NextSend ==
    \/ \E a \in 1..MaxAttempts : handleStartMeeting(a) /\ Chat
    \/ RunChat
    \/ \E g \in Attempts : onaudioprocess(g) /\ UNCHANGED <<caught, frameVars>>

SpecSend == Init /\ [][NextSend]_vars

\* SpecMessage: handleMessage on each message of Messages, from an empty log
InitMessage == Constructed /\ message \in Messages

NextMessage ==
    /\ last.op = "init"
    /\ Inbound(0, message)
    /\ UNCHANGED <<caught, frameVars>>

SpecMessage == InitMessage /\ [][NextMessage]_vars

\* SpecCapture: the lifecycle alone, with the rejection that the catch block
\* handled kept in `caught`.
NextCapture ==
    \/ \E a \in 1..MaxAttempts : handleStartMeeting(a) /\ Quiet
    \/ \E a \in Attempts, err \in PlatformErrors :
          getUserMediaRejects(a, err) /\ caught' = err
              /\ UNCHANGED <<logVars, sendVars, frameVars>>
    \/ \E a \in Attempts, err \in PlatformErrors :
          getDisplayMediaRejects(a, err) /\ caught' = err
              /\ UNCHANGED <<logVars, sendVars, frameVars>>
    \/ \E a \in Attempts : MicNoTrack(a) /\ Quiet
    \/ \E a \in Attempts : MicGranted(a) /\ Quiet
    \/ \E a \in Attempts : TabNoAudio(a) /\ Quiet
    \/ \E a \in Attempts : TabGranted(a) /\ Quiet
    \/ \E a \in Attempts : TabGrantedSuspended(a) /\ Quiet
    \/ \E a \in Attempts : Resumed(a) /\ Quiet
    \/ \E a \in Attempts : ResumeRejected(a) /\ Quiet
    \/ \E a \in Attempts : onopen(a) /\ Quiet
    \/ \E a \in Attempts : onclose(a) /\ Quiet
    \/ \E a \in Attempts : onerror(a) /\ Quiet
    \/ Stop /\ Quiet
    \/ \E a \in Attempts : VideoEnded(a) /\ Quiet

SpecCapture == Init /\ [][NextCapture]_vars

----------------------------------------------------------------------------
\* The order of the audio frames

\* The callback put in front of the promise's waiting callbacks
EnqueueFrameInFront(q, n) == <<n>> \o q

\* sessionPromise.then(callback): the callbacks of a pending promise run in
\* the order of their then() calls
EnqueueFrame(q, n) == Append(q, n)

\* onaudioprocess produces frame number produced + 1 and hands it to
\* sessionPromise.then: a resolved promise runs the callback before any other
\* handler, a pending one keeps it.
ProduceFrame ==
    LET n == produced + 1 IN
    /\ produced < MaxFrames
    /\ produced' = n
    /\ IF sessionPromise = 0
       THEN UNCHANGED <<frameQueue, delivered>>
       ELSE IF sessionPromise \in resolved
            THEN /\ delivered' = [delivered EXCEPT ![sessionPromise] = Append(@, n)]
                 /\ UNCHANGED frameQueue
            ELSE /\ frameQueue' = [frameQueue EXCEPT ![sessionPromise] = EnqueueFrame(@, n)]
                 /\ UNCHANGED delivered
    /\ UNCHANGED caught

\* A lifecycle step while frames are produced: when a session opens, the
\* callbacks waiting on its promise run, first registered first.
Framed ==
    /\ Outbound
    /\ IF \E a \in Attempts : session[a] = "pending" /\ session'[a] = "open"
       THEN LET a == CHOOSE b \in Attempts : session[b] = "pending" /\ session'[b] = "open"
            IN  /\ delivered' = [delivered EXCEPT ![a] = @ \o frameQueue[a]]
                /\ frameQueue' = [frameQueue EXCEPT ![a] = << >>]
       ELSE UNCHANGED <<frameQueue, delivered>>
    /\ UNCHANGED <<logVars, caught, produced>>

\* SpecFrames: overlapping sessions while the script processors produce
\* numbered frames.
NextFrames ==
    \/ \E a \in 1..MaxAttempts : handleStartMeeting(a) /\ Framed
    \/ \E a \in Attempts : MicRejected(a) /\ Framed
    \/ \E a \in Attempts : MicNoTrack(a) /\ Framed
    \/ \E a \in Attempts : MicGranted(a) /\ Framed
    \/ \E a \in Attempts : TabRejected(a) /\ Framed
    \/ \E a \in Attempts : TabNoAudio(a) /\ Framed
    \/ \E a \in Attempts : TabGranted(a) /\ Framed
    \/ \E a \in Attempts : TabGrantedSuspended(a) /\ Framed
    \/ \E a \in Attempts : Resumed(a) /\ Framed
    \/ \E a \in Attempts : ResumeRejected(a) /\ Framed
    \/ \E a \in Attempts : onopen(a) /\ Framed
    \/ \E a \in Attempts : onclose(a) /\ Framed
    \/ \E a \in Attempts : onerror(a) /\ Framed
    \/ Stop /\ Framed
    \/ \E a \in Attempts : VideoEnded(a) /\ Framed
    \/ \E g \in Attempts : onaudioprocess(g) /\ ProduceFrame

SpecFrames == Init /\ [][NextFrames]_vars

TypeOK ==
    /\ connectionState \in ConnectionState
    /\ stream \in {0} \cup Attempts
    /\ activeTracks \subseteq Tracks
    /\ readyState \in [Tracks -> {"none", "live", "stopped", "ended"}]
    /\ pc \in [Attempts -> {"idle", "getUserMedia", "getDisplayMedia", "resume", "done"}]
    /\ session \in [Attempts -> {"none", "failed", "pending", "open", "errored", "closed"}]
    /\ sessionPromise \in {0} \cup Attempts
    /\ scriptProcessor \in {0} \cup Attempts
    /\ framers \subseteq Attempts
    /\ nextAttempt \in 1..(Cardinality(Attempts) + 1)
    /\ Len(transcripts) <= MaxLog
    /\ \A i \in 1..Len(transcripts) :
           /\ transcripts[i].text \in Texts
           /\ transcripts[i].isUser \in BOOLEAN
           /\ transcripts[i].isComplete \in BOOLEAN
    /\ isGenerating \in BOOLEAN
    /\ currentSuggestion.isUser = FALSE
    /\ message \in Messages
    /\ resolved \subseteq Attempts
    /\ \A a \in Attempts : queued[a] \subseteq {"audio", "text"} \X ({0} \cup Attempts)
    /\ sent.kind \in {"none", "audio", "text"}
    /\ afterError \in BOOLEAN
    /\ fresh \subseteq Attempts
    /\ caught \in PlatformErrors \cup {NoError}
    /\ produced \in 0..MaxFrames
    /\ \A a \in Attempts :
           /\ \A i \in 1..Len(frameQueue[a]) : frameQueue[a][i] \in 1..produced
           /\ \A i \in 1..Len(delivered[a]) : delivered[a][i] \in 1..produced

----------------------------------------------------------------------------
(* Claims *)

\* C1: once an explicit stop-session has completed, every track acquired by
\* the starts before it is stopped: microphone, tab-share audio and video,
\* and the mixed stream's track.
C1_StopReleasesEveryTrack == last.op = "stop" => Live = {}

C1_Witness == last.op = "stop" /\ \E a \in Attempts : readyState[T(a, "mixed")] = "stopped"

\* C2: whenever the connection state is ERROR no source track and no
\* mixed-stream track is live.
C2_ErrorHoldsNoLiveTrack == connectionState = ERROR => Live = {}

C2_Witness == connectionState = ERROR /\ last.op = "onerror" /\ LiveOf(last.a) # {}

\* C3: when the tab-share video track ends remotely in CONNECTED, the state
\* becomes DISCONNECTED, every track of that session is released, its mixed
\* track included, and the stream slot is cleared.
C3_VideoEndedTearsDown ==
    (last.op = "videoEnded" /\ last.from = CONNECTED) =>
        /\ connectionState = DISCONNECTED
        /\ LiveOf(last.a) = {}
        /\ stream = 0

C3_Witness == last.op = "videoEnded" /\ last.from = CONNECTED /\ connectionState = DISCONNECTED

\* C4: an attempt whose tab-share capture returned no audio track has its
\* video track and its microphone track stopped and never invokes connect;
\* the step that finds it ends in ERROR with the error surfaced.
C4_NoTabAudioRollsBack ==
    /\ \A a \in Attempts :
          (readyState[T(a, "tabVideo")] # "none" /\ readyState[T(a, "tabAudio")] = "none") =>
              /\ readyState[T(a, "tabVideo")] = "stopped"
              /\ readyState[T(a, "mic")] = "stopped"
              /\ session[a] = "none"
    /\ last.op = "tabNoAudio" =>
          /\ connectionState = ERROR
          /\ errorMsg = NoTabAudioMsg

C4_Witness ==
    /\ last.op = "tabNoAudio"
    /\ readyState[T(last.a, "tabVideo")] = "stopped"
    /\ readyState[T(last.a, "mic")] = "stopped"

\* C5: a failure at any step of start-session (microphone capture, tab-share
\* capture, resume, session connect) leaves no track of the attempt live, the
\* state ERROR and a non-empty error message.
FailedStep ==
    \/ last.op \in {"micRejected", "micNoTrack", "tabRejected", "tabNoAudio", "resumeRejected"}
    \/ last.op = "connect" /\ session[last.a] = "failed"

C5_FailureRollsBack ==
    FailedStep =>
        /\ LiveOf(last.a) = {}
        /\ connectionState = ERROR
        /\ errorMsg \notin {NULL, ""}

C5_Witness == last.op = "connect" /\ session[last.a] = "failed" /\ connectionState = ERROR

\* C6: handleStopMeeting invoked in DISCONNECTED leaves the state
\* DISCONNECTED and the error message as it was, calls stop() on no track
\* that was stopped before, and tears down no audio graph.
C6_StopWhenDisconnectedIsIdempotent ==
    [][\A a \in Attempts :
          (connectionState = DISCONNECTED /\ VideoEnded(a)) =>
              /\ connectionState' = DISCONNECTED
              /\ errorMsg' = errorMsg
              /\ \A t \in StopTargets(closureStream[a]) : readyState[t] # "stopped"
              /\ framers' = framers]_vars

C6_Witness == last.op = "videoEnded" /\ last.from = DISCONNECTED

\* C7: a stop-session clicked while a start is in progress releases every
\* track that start holds, and when that start has run to its end none of its
\* tracks is live.
C7_StopMidStartReleases ==
    \A a \in interrupted : (last.op = "stop" \/ pc[a] = "done") => LiveOf(a) = {}

C7_Witness == last.op = "stop" /\ last.from = CONNECTING /\ interrupted # {}

\* C8: after stop-session has completed the state stays DISCONNECTED, and
\* no audio graph is started, until the next click on start-session.
C8_StoppedStaysDisconnected ==
    [][afterStop' => /\ connectionState' = DISCONNECTED
                     /\ afterStop => framers' \subseteq framers]_vars

C8_Witness == afterStop /\ \E a \in Attempts : session[a] = "pending"

\* C9: at most one session is open at a time, and connect is never issued
\* while a session opened earlier is still open.
C9_OneActiveSession ==
    /\ Cardinality({a \in Attempts : session[a] = "open"}) <= 1
    /\ last.op = "connect" => \A b \in Attempts \ {last.a} : session[b] # "open"

C9_Witness == last.op = "connect" /\ \E b \in Attempts \ {last.a} : session[b] = "open"

\* C10: tracks of two different start attempts are never live at the same time.
C10_OneAttemptHoldsTracks == \A t, u \in Live : t[1] = u[1]

C10_Witness == last.op = "start" /\ last.a = 2 /\ readyState[T(1, "mic")] = "stopped"

\* C15: once the connection state is Error it changes only as a result of an
\* explicit user start-session (the connect() that the start issues); no
\* service callback (onopen, onclose, onerror) moves the state out of Error on
\* its own. The user ending the tab share, which tears the session down, is
\* not counted against the statement.
C15_ErrorLeftOnlyByStart ==
    [][(connectionState = ERROR /\ connectionState' # ERROR)
            => last'.op \in {"connect", "stop", "videoEnded"}]_vars

\* The service closed an errored session and the state left Error for
\* Disconnected, with no click in between.
C15_Witness ==
    /\ last.op = "onclose"
    /\ connectionState = DISCONNECTED
    /\ errorMsg # NULL

\* C18: whenever the connection state is Disconnected, no captured source
\* track and no mixed-stream track is live and the stream slot is empty.
C18_DisconnectedHoldsNothing ==
    connectionState = DISCONNECTED => Live = {} /\ stream = 0

\* The service closed an open session on its own: the state is Disconnected
\* while the session's tracks are live and the stream slot is occupied.
C18_Witness ==
    /\ last.op = "onclose"
    /\ connectionState = DISCONNECTED
    /\ stream = last.a
    /\ LiveOf(last.a) # {}

\* C20: handleMessage turns one inbound message into one item with
\* isUser = TRUE if it has a non-empty input transcription text, followed by
\* one item with isUser = FALSE if it has a non-empty output transcription
\* text, none for an empty or absent text, each with isComplete equal to the
\* message's turnComplete flag coerced to a boolean.
C20_HandleMessageItems ==
    last.op = "onmessage" =>
        LET hasIn == message.serverContent /\ message.inputTranscription \in Texts
            hasOut == message.serverContent /\ message.outputTranscription \in Texts
            n == Len(transcripts)
        IN  /\ n = (IF hasIn THEN 1 ELSE 0) + (IF hasOut THEN 1 ELSE 0)
            /\ hasIn => /\ transcripts[1].isUser
                        /\ transcripts[1].text = message.inputTranscription
            /\ hasOut => /\ ~transcripts[n].isUser
                         /\ transcripts[n].text = message.outputTranscription
            /\ \A i \in 1..n :
                    transcripts[i].isComplete = (message.turnComplete = "true")

\* A message with both texts and no turnComplete field was handled.
C20_Witness ==
    /\ last.op = "onmessage"
    /\ Len(transcripts) = 2
    /\ message.turnComplete = "undefined"
    /\ message.inputTranscription # message.outputTranscription

\* C11: the transcript log holds the texts of the inbound transcription
\* events in exactly the order received, each once, with its side, whatever
\* the interleaving of input-side and output-side events.
C11_LogKeepsArrivalOrder == SidesAndTexts(transcripts) = received

\* An output-side event and then an input-side event of a later message,
\* with different texts, are in the log.
C11_Witness ==
    /\ Len(transcripts) = 2
    /\ ~transcripts[1].isUser
    /\ transcripts[2].isUser
    /\ transcripts[1].text # transcripts[2].text
    /\ transcripts[1].isComplete # transcripts[2].isComplete

OutputSide(e) == ~e[1]

\* C12: if the current-suggestion slot is non-empty it holds the last
\* output-side item appended to the log, and every output-side item received
\* is still in the log.
C12_SlotIsLastOutputItem ==
    /\ currentSuggestion # NoItem =>
           \E i \in 1..Len(transcripts) :
               /\ transcripts[i] = currentSuggestion
               /\ ~transcripts[i].isUser
               /\ \A j \in (i + 1)..Len(transcripts) : transcripts[j].isUser
    /\ SelectSeq(SidesAndTexts(transcripts), OutputSide) = SelectSeq(received, OutputSide)

\* Two output-side items with different texts arrived; the slot holds the
\* second and the log holds both.
C12_Witness ==
    /\ Len(transcripts) = 2
    /\ ~transcripts[1].isUser
    /\ ~transcripts[2].isUser
    /\ transcripts[1].text # transcripts[2].text
    /\ currentSuggestion = transcripts[2]

\* C13: request-suggestion while the connection state is Disconnected sends
\* no message to the service, appends no transcript item, leaves the current
\* suggestion and the generating indicator as they were and does not change
\* the connection state.
C13_GenerateWhenDisconnectedIsNoOp ==
    [][(connectionState = DISCONNECTED /\ last'.op = "generate")
            => /\ sent' = NoSend
               /\ queued' = queued
               /\ transcripts' = transcripts
               /\ currentSuggestion' = currentSuggestion
               /\ isGenerating' = isGenerating
               /\ connectionState' = connectionState]_vars

\* The request came in Disconnected while the service still held a session
\* promise and a suggestion was shown.
C13_Witness ==
    /\ last.op = "generate"
    /\ last.from = DISCONNECTED
    /\ sessionPromise # 0
    /\ sessionPromise \in resolved
    /\ currentSuggestion # NoItem

\* C14: connect(stream) sets the state to Connecting at once; the state is
\* Connected only when the session of that connect (the one the service holds)
\* has been acknowledged open; no audio frame is submitted to a session
\* before its acknowledgment.
C14_ConnectedOnlyWhenAcknowledged ==
    /\ (last.op = "connect" /\ session[last.a] = "pending") => connectionState = CONNECTING
    /\ (connectionState = CONNECTED /\ sessionPromise # 0) => sessionPromise \in resolved
    /\ sent.kind = "audio" => sent.to \in resolved

\* An earlier session opened while the latest connect is still waiting for
\* its acknowledgment: the state is Connected.
C14_Witness ==
    /\ last.op = "onopen"
    /\ connectionState = CONNECTED
    /\ sessionPromise # 0
    /\ sessionPromise # last.a
    /\ session[sessionPromise] = "pending"

\* C16: onerror during an open session sets the state to Error and stops
\* outbound framing: no audio frame is submitted afterwards until the user
\* starts a session again. (connect() is called by handleStartMeeting alone,
\* so no connect is issued that the user did not start.)
C16_ErrorStopsOutboundAudio ==
    /\ (last.op = "onerror" /\ afterError) => connectionState = ERROR /\ scriptProcessor = 0
    /\ afterError => sent.kind # "audio"

\* After the error, with no click since, a frame went to the session that
\* reported the error.
C16_Witness ==
    /\ afterError
    /\ sent.kind = "audio"
    /\ sent.status = "errored"

\* C17: requestSuggestion() sends nothing unless a session is open: not when
\* called before the session-open acknowledgment (not even later, once the
\* session opens), not after onclose, onerror or disconnect().
C17_RequestNeedsOpenSession ==
    sent.kind = "text" => sent.status = "open" /\ ~sent.deferred

\* The request text went to a session that the service had closed or that
\* had reported an error.
C17_Witness ==
    /\ sent.kind = "text"
    /\ sent.status \in {"closed", "errored"}

\* C19: every audio frame submitted goes to a session whose connect was
\* issued after the last disconnect() and has been acknowledged open, and it
\* carries audio of the mixed stream passed to that connect.
C19_FramesOfTheAcknowledgedStream ==
    sent.kind = "audio" =>
        /\ sent.to \in fresh
        /\ sent.to \in resolved
        /\ sent.from = sent.to

\* After a stop, a frame with audio of the stopped session's stream went to
\* the session of the later connect.
C19_Witness ==
    /\ sent.kind = "audio"
    /\ sent.from # sent.to
    /\ sent.to \in fresh
    /\ sent.from \notin fresh
    /\ afterStop

C22_StartClearsErrorUntilItFails ==
    \A a \in Attempts :
        pc[a] \in {"getUserMedia", "getDisplayMedia", "resume"} => errorMsg = NULL

\* Another attempt failed while this one is still acquiring its captures.
C22_Witness ==
    /\ errorMsg # NULL
    /\ \E a \in Attempts :
           /\ pc[a] \in {"getUserMedia", "getDisplayMedia", "resume"}
           /\ last.a # a
           /\ last.op \in {"micRejected", "micNoTrack", "tabRejected", "tabNoAudio", "resumeRejected"}

\* C24: whenever the connection state is not Connected the generating
\* indicator is false.
C24_GeneratingOnlyWhenConnected ==
    connectionState # CONNECTED => ~isGenerating

\* The session was stopped during generation and the indicator is still set.
C24_Witness ==
    /\ last.op = "stop"
    /\ connectionState = DISCONNECTED
    /\ isGenerating

\* C23: a capture failure whose error name is NotAllowedError yields the
\* permission-denied message, and one whose message mentions display-capture
\* yields the capture-policy-violation message, for every combination of
\* error name and message.
C23_CaptureFailuresClassified ==
    last.op \in {"micRejected", "tabRejected"} =>
        /\ caught.name = "NotAllowedError" => errorMsg = PermissionMsg
        /\ IncludesDisplayCapture(caught.message) => errorMsg = PolicyMsg

\* getDisplayMedia was rejected with NotAllowedError and a message that
\* mentions display-capture: the permission-denied message is shown.
C23_Witness ==
    /\ last.op = "tabRejected"
    /\ caught.name = "NotAllowedError"
    /\ IncludesDisplayCapture(caught.message)
    /\ errorMsg = PermissionMsg

\* C25: the audio frames produced for one session are passed to its
\* sendRealtimeInput in the order in which onaudioprocess produced them,
\* frames produced while the session promise was pending included (they go
\* before every later frame, in their own order).
C25_FramesInProductionOrder ==
    \A a \in Attempts :
        LET all == delivered[a] \o frameQueue[a]
        IN  \A i, j \in 1..Len(all) : i < j => all[i] < all[j]

\* A session opened and the frames that had waited on its promise, at least
\* two, were passed to it; frames of another graph went to another session
\* or nowhere.
C25_Witness ==
    /\ last.op = "onopen"
    /\ Len(delivered[last.a]) >= 2
    /\ sent.deferred
====
